---- MODULE Spec2Model ----
(***************************************************************************)
(* A model of the pick-and-place scheduler: Setup.load_data validates and  *)
(* builds the jobs, Job.cluster_placements cuts each feeder's placements   *)
(* into head-sized clusters, PlacementModel states the routing MIP of one  *)
(* cluster and reads the solver's answer back, and PNPEngine stitches the  *)
(* cluster routes into the per-job event sequences.                        *)
(*                                                                         *)
(* Units: coordinates and distances are whole millimetres (every pair of   *)
(* points the model draws is a whole number of millimetres apart), times   *)
(* are whole milliseconds.                                                 *)
(***************************************************************************)
EXTENDS Integers, Sequences, FiniteSets, TLC

VARIABLES
    \* ---- the workbook (Setup.load_data's inputs) ----
    machine_inputs,     \* the machine sheet: a record of its properties
    tools_df,           \* the tools sheet: a sequence of rows
    feeders_df,         \* the feeders sheet
    jobs_df,            \* the jobs sheet (sorted by due time once loaded)
    placements_df,      \* the placements sheet
    \* ---- Setup ----
    jobs,               \* Setup.jobs: sequence of [job, quantity]
    \* ---- control ----
    pc,                 \* where the program is
    error,              \* the exception that ended the run, or NoError
    \* ---- PNPEngine.run ----
    sequence_by_job,    \* insertion-ordered dict: sequence of [key, events]
    job_idx,            \* position of the for loop over Setup.jobs
    job_previous,       \* job_id of the previous job, or None
    job_iteration,
    feeder_last,        \* feeder returned by the last _run_job, or None
    sequence_for_job,
    \* ---- PNPEngine._run_job ----
    sequence_for_trip,
    feeder_previous,
    feeder_idx,         \* position of the for loop over job.feeders
    clusters_by_part_type,
    cluster_idx,        \* position of the for loop over clusters
    cluster_events,     \* the events appended for the cluster last processed
    \* ---- PlacementModel ----
    feeder,             \* PlacementModel.feeder
    cluster,            \* PlacementModel.placements
    p,                  \* the binary variables set to 1: a set of <<i, j, t>>
    mip_t,              \* the next step whose variables the search fixes
    termination_condition,
    cluster_result,     \* the rows _get_results returned, or None
    \* ---- object identity ----
    next_ref,           \* the next fresh object reference
    \* ---- the caller ----
    sequence_df         \* the table run returned, or NoTable

vars == << machine_inputs, tools_df, feeders_df, jobs_df, placements_df, jobs,
           pc, error, sequence_by_job, job_idx, job_previous, job_iteration,
           feeder_last, sequence_for_job, sequence_for_trip, feeder_previous,
           feeder_idx, clusters_by_part_type, cluster_idx, cluster_events,
           feeder, cluster, p, mip_t, termination_condition, cluster_result,
           next_ref, sequence_df >>

None == "None"
NoError == [ type |-> "NoError", msg |-> << >> ]
\* The variables of a model no solver has given values to (a solution takes
\* Len(cluster) + 1 trips, so it is never empty).
NoValues == {}
\* run has returned nothing (a table that is returned has two rows or more).
NoTable == << >>
\* No rows: PlacementModel.run has returned nothing.
NoResult == << >>

(***************************************************************************)
(* Bounds of the model.                                                    *)
(***************************************************************************)
MaxN == 3               \* largest cluster the routing search enumerates
MaxJobs == 2            \* rows of the jobs sheet
MaxQuantity == 2        \* largest job quantity
MaxFeeders == 2         \* rows of the feeders sheet
MaxPlacements == 3      \* rows of the placements sheet
MaxHeadCapacity == 2    \* largest machine head capacity

(***************************************************************************)
(* Generic helpers.                                                        *)
(***************************************************************************)
Range(s) == { s[k] : k \in 1..Len(s) }

RECURSIVE SeqsUpTo(_, _)
SeqsUpTo(S, k) ==
    IF k = 0 THEN { << >> }
    ELSE LET shorter == SeqsUpTo(S, k - 1)
         IN  shorter \cup { Append(s, e) : s \in { q \in shorter : Len(q) = k - 1 }, e \in S }

RECURSIVE SumSeq(_)
SumSeq(s) == IF s = << >> THEN 0 ELSE Head(s) + SumSeq(Tail(s))

RECURSIVE Flatten(_)
Flatten(ss) == IF ss = << >> THEN << >> ELSE Head(ss) \o Flatten(Tail(ss))

\* A sort that leaves the list as it is.
SortBy_unsorted(s, key) == s

\* list.sort(key=Key): a stable sort, so items of equal key keep their order.
\* key[k] is the sort key of the item s[k].
SortBy(s, key) ==
    LET rank(k) == 1 + Cardinality({ m \in 1..Len(s) :
                        \/ key[m] < key[k]
                        \/ key[m] = key[k] /\ m < k })
    IN  [ r \in 1..Len(s) |-> s[CHOOSE k \in 1..Len(s) : rank(k) = r] ]

\* pandas' duplicated().any() over a column (or a list of columns).
Duplicated(rows, cols) ==
    \E a, b \in 1..Len(rows) :
        a # b /\ \A k \in 1..Len(cols) : rows[a][cols[k]] = rows[b][cols[k]]

(***************************************************************************)
(* Geometry (model/utils/math_helpers.py).                                 *)
(***************************************************************************)
ISqrt(m) == CHOOSE r \in 0..m : r * r <= m /\ m < (r + 1) * (r + 1)

calculate_distance(p1, p2) ==
    ISqrt((p1[1] - p2[1]) * (p1[1] - p2[1]) + (p1[2] - p2[2]) * (p1[2] - p2[2]))

(***************************************************************************)
(* The routing MIP (model/placement_model.py).  Node 0 is the feeder and   *)
(* node k the k-th placement of the cluster; an assignment x is the set of *)
(* <<i, j, t>> whose binary variable p[i, j, t] is 1.                      *)
(***************************************************************************)
feeder_idx_0 == 0

\* _preprocessing: the keys of trip_distances in insertion order.
trips(N) ==
    [ k \in 1..N |-> << 0, k >> ]
    \o [ k \in 1..N |-> << k, 0 >> ]
    \o Flatten([ a \in 1..N |->
            SelectSeq([ b \in 1..N |-> << a, b >> ], LAMBDA tr : tr[1] # tr[2]) ])

place_idx(N) == 1..N
node_idx(N) == 0..N
arc_idx(N) == 0..N
arc_idx_1(N) == 1..(N - 1)
trip_idx(N) == Range(trips(N))

\* quicksum of binary variables: the number of them that are 1.
quicksum(x, keys) == Cardinality(keys \cap x)

c_single_arc(x, N, t) ==
    quicksum(x, { << tr[1], tr[2], t >> : tr \in trip_idx(N) }) = 1

c_start_feeder(x, N) ==
    quicksum(x, { << feeder_idx_0, j, 0 >> : j \in node_idx(N) \ {feeder_idx_0} }) = 1

c_feeder_no_arrive_at_start(x, N) ==
    quicksum(x, { << i, feeder_idx_0, 0 >> : i \in node_idx(N) \ {feeder_idx_0} }) = 0

c_end_feeder(x, N) ==
    quicksum(x, { << i, feeder_idx_0, N >> : i \in node_idx(N) \ {feeder_idx_0} }) = 1

c_feeder_no_departure_at_end(x, N) ==
    quicksum(x, { << feeder_idx_0, j, N >> : j \in node_idx(N) \ {feeder_idx_0} }) = 0

\* The model without its continuity constraint.
c_continuity_none(x, N, v, t) == TRUE

c_continuity(x, N, v, t) ==
    LET arr == quicksum(x, { << i, v, t - 1 >> : i \in node_idx(N) \ {v} })
        dep == quicksum(x, { << v, j, t >> : j \in node_idx(N) \ {v} })
    IN  arr = dep

c_placement_one_departure(x, N, v) ==
    quicksum(x, { << v, j, t >> : j \in node_idx(N) \ {v}, t \in arc_idx(N) }) = 1

c_placement_one_arrival(x, N, v) ==
    quicksum(x, { << i, v, t >> : i \in node_idx(N) \ {v}, t \in arc_idx(N) }) = 1

\* _set_constraints: every constraint the model is built with.
Constraints(x, N) ==
    /\ \A t \in arc_idx(N) : c_single_arc(x, N, t)
    /\ c_start_feeder(x, N)
    /\ c_feeder_no_arrive_at_start(x, N)
    /\ c_end_feeder(x, N)
    /\ c_feeder_no_departure_at_end(x, N)
    /\ \A v \in place_idx(N), t \in arc_idx_1(N) : c_continuity(x, N, v, t)
    /\ \A v \in place_idx(N) : c_placement_one_departure(x, N, v)
    /\ \A v \in place_idx(N) : c_placement_one_arrival(x, N, v)

(***************************************************************************)
(* The domain model (model/objects/components.py).                         *)
(***************************************************************************)
Node(node_id, node_type, part_type, x, y) ==
    [ id |-> node_id, node_type |-> node_type, part_type |-> part_type, x |-> x, y |-> y ]

Machine(inputs) ==
    [ head_count |-> inputs.head_count,
      head_capacity |-> inputs.head_capacity,
      travel_speed |-> inputs.travel_speed_mm_s,
      pick_time |-> inputs.pick_time_s,
      place_time |-> inputs.place_time_s,
      vision_align_time |-> inputs.vision_align_s,
      pcb_changeover_time |-> inputs.pcb_changeover_s ]

_get_feeders(sheet) ==
    [ k \in 1..Len(sheet) |->
        Node(sheet[k].id, "feeder", sheet[k].part_type, sheet[k].pickup_x_mm, sheet[k].pickup_y_mm) ]

_get_placements(sheet) ==
    [ k \in 1..Len(sheet) |->
        Node(sheet[k].id, "placement", sheet[k].part_type, sheet[k].x_mm, sheet[k].y_mm) ]

\* pandas' unique(): the values of a column in order of first appearance.
Unique(col) ==
    SelectSeq([ k \in 1..Len(col) |-> IF \E m \in 1..(k - 1) : col[m] = col[k] THEN None ELSE col[k] ],
              LAMBDA v : v # None)

Pos(node) == << node.x, node.y >>

\* shapely's contains() of the minimum rotated rectangle of the placements,
\* for the point sets the model draws: no point (empty, contains nothing), one
\* position (a Point, which contains only itself) or two positions (a
\* LineString, which contains the points strictly between its ends).
RectangleContains(placements, pt) ==
    LET pts == { Pos(placements[k]) : k \in 1..Len(placements) }
    IN  \/ pts = { pt }
        \/ \E a, b \in pts :
              /\ a # b /\ pt # a /\ pt # b
              /\ (pt[1] - a[1]) * (b[2] - a[2]) = (pt[2] - a[2]) * (b[1] - a[1])
              /\ (pt[1] - a[1]) * (pt[1] - b[1]) <= 0
              /\ (pt[2] - a[2]) * (pt[2] - b[2]) <= 0

\* _validate_points: TRUE when the constructor raises.
_validate_points(feeders, placements) ==
    \E k \in 1..Len(feeders) : RectangleContains(placements, Pos(feeders[k]))

\* Job.__init__ (when _validate_points lets it through).
Job(job_id, inputs, feeders_sheet, placements_sheet) ==
    [ job_id |-> job_id,
      machine |-> Machine(inputs),
      part_types |-> Unique([ k \in 1..Len(placements_sheet) |-> placements_sheet[k].part_type ]),
      feeders |-> SortBy(_get_feeders(feeders_sheet),
                         [ k \in 1..Len(feeders_sheet) |-> _get_feeders(feeders_sheet)[k].x ]),
      placements |-> _get_placements(placements_sheet) ]

\* No node (a variable that holds None, a dict.get that finds nothing).
NoNode == Node(None, None, None, 0, 0)

\* A dict built from a list of nodes keyed by id: the last node of an id wins.
ById(nodes, id) ==
    LET hits == { k \in 1..Len(nodes) : nodes[k].id = id }
    IN  IF hits = {} THEN NoNode
        ELSE nodes[CHOOSE k \in hits : \A m \in hits : m <= k]

feeders_by_id(job, id) == ById(job.feeders, id)
placements_by_id(job, id) == ById(job.placements, id)

\* calculate_distances: the three maps, read by node.
feeder_placement_distances(job, f, q) == calculate_distance(Pos(f), Pos(q))
feeder_feeder_distances(job, f, g) == calculate_distance(Pos(f), Pos(g))
placement_placement_distances(job, q, r) == calculate_distance(Pos(q), Pos(r))

\* The slices without the short one the list may end with.
Chunks_full_only(s, size) ==
    [ c \in 1..(Len(s) \div size) |-> SubSeq(s, (c - 1) * size + 1, c * size) ]

\* list[i:i+size] for i in range(0, len(list), size)
Chunks(s, size) ==
    [ c \in 1..((Len(s) + size - 1) \div size) |->
        SubSeq(s, (c - 1) * size + 1, IF c * size < Len(s) THEN c * size ELSE Len(s)) ]

\* Job.cluster_placements: the dict as a function from part type to clusters.
\* Keys: the part types of the placements, then those of the feeders the loop
\* assigns; a part type that two feeders share keeps the later feeder's list.
cluster_placements(job) ==
    LET keys == Range(job.part_types) \cup { job.feeders[k].part_type : k \in 1..Len(job.feeders) }
        clusters_for(f) ==
            LET placements_for_feeder ==
                    SelectSeq(job.placements, LAMBDA q : q.part_type = f.part_type)
                sorted == SortBy(placements_for_feeder,
                    [ k \in 1..Len(placements_for_feeder) |->
                        feeder_placement_distances(job, f, placements_for_feeder[k]) ])
            IN  Chunks(sorted, job.machine.head_capacity)
        last_feeder(part_type) ==
            LET hits == { k \in 1..Len(job.feeders) : job.feeders[k].part_type = part_type }
            IN  IF hits = {} THEN 0 ELSE CHOOSE k \in hits : \A m \in hits : m <= k
    IN  [ part_type \in keys |->
            IF last_feeder(part_type) = 0 THEN << >>
            ELSE clusters_for(job.feeders[last_feeder(part_type)]) ]

(***************************************************************************)
(* Setup.load_data (model/objects/setup.py).                               *)
(***************************************************************************)
MsgJobIds == "Job IDs are not unique"
MsgTools == "Expected one-to-one mapping between part type and nozzle size"
MsgFeederIds == "Feeder IDs are not unique"
MsgFeederParts == "Expected one-to-one mapping between feeder and part type"
MsgPickupY == "Expected consistent feeder pickup y"
MsgPlacementIds == "Placement IDs are not unique"
MsgOverlap == "Feeders overlap with PCB boundary."

\* The checks of load_data in the order the code makes them: the message each
\* appends to err_msg when it fails.
err_msg(jobs_sheet, tools_sheet, feeders_sheet, placements_sheet) ==
    (IF Duplicated(jobs_sheet, << "id" >>) THEN << MsgJobIds >> ELSE << >>)
    \o (IF Duplicated(tools_sheet, << "part_type" >>) THEN << MsgTools >> ELSE << >>)
    \o (IF Duplicated(feeders_sheet, << "id" >>) THEN << MsgFeederIds >> ELSE << >>)
    \o (IF Duplicated(feeders_sheet, << "part_type" >>) THEN << MsgFeederParts >> ELSE << >>)
    \o (IF \E k \in 1..Len(feeders_sheet) : feeders_sheet[k].pickup_y_mm # feeders_sheet[1].pickup_y_mm
        THEN << MsgPickupY >> ELSE << >>)
    \o (IF Duplicated(placements_sheet, << "job_id", "id" >>)
        THEN << MsgPlacementIds >> ELSE << >>)

\* The placements sheet filtered to one job.
job_placements_df(placements_sheet, job_id) ==
    SelectSeq(placements_sheet, LAMBDA r : r.job_id = job_id)

\* The (Job, quantity) pairs the loop over job_ids appends.
LoadedJobs(jobs_sheet, inputs, feeders_sheet, placements_sheet) ==
    [ k \in 1..Len(jobs_sheet) |->
        LET job_id == jobs_sheet[k].id
            job_df == SelectSeq(jobs_sheet, LAMBDA r : r.id = job_id)
        IN  [ job |-> Job(job_id, inputs, feeders_sheet, job_placements_df(placements_sheet, job_id)),
              quantity |-> job_df[1].quantity ] ]

ValueError(msgs) == [ type |-> "ValueError", msg |-> msgs ]
IndexError == [ type |-> "IndexError", msg |-> << >> ]

EngineIdle ==
    UNCHANGED << sequence_by_job, job_idx, job_previous, job_iteration, feeder_last,
                 sequence_for_job, sequence_for_trip, feeder_previous, feeder_idx,
                 clusters_by_part_type, cluster_idx, cluster_events, feeder, cluster,
                 p, mip_t, termination_condition, cluster_result, next_ref,
                 sequence_df >>

load_data ==
    /\ pc = "load"
    /\ LET sorted == SortBy(jobs_df, [ k \in 1..Len(jobs_df) |-> jobs_df[k].due_time_s ])
           msgs == err_msg(sorted, tools_df, feeders_df, placements_df)
           built == LoadedJobs(sorted, machine_inputs, feeders_df, placements_df)
           overlap == \E k \in 1..Len(built) :
                          _validate_points(built[k].job.feeders, built[k].job.placements)
       IN  /\ jobs_df' = sorted
           /\ IF feeders_df = << >>
              THEN \* feeders_pickup_y[0] of an empty column
                   /\ error' = IndexError
                   /\ pc' = "error"
                   /\ jobs' = jobs
              ELSE IF msgs # << >>
              THEN /\ error' = ValueError(msgs)
                   /\ pc' = "error"
                   /\ jobs' = jobs
              ELSE IF overlap
              THEN \* the Job constructor raises: load_data ends in its error
                   /\ error' = ValueError(<< MsgOverlap >>)
                   /\ pc' = "error"
                   /\ jobs' = SubSeq(built, 1,
                                (CHOOSE k \in 1..Len(built) :
                                    /\ _validate_points(built[k].job.feeders, built[k].job.placements)
                                    /\ \A m \in 1..(k - 1) :
                                         ~_validate_points(built[m].job.feeders, built[m].job.placements)) - 1)
              ELSE /\ error' = error
                   /\ pc' = "run"
                   /\ jobs' = built
    /\ UNCHANGED << machine_inputs, tools_df, feeders_df, placements_df >>
    /\ EngineIdle

(***************************************************************************)
(* Events and arcs (model/objects/sequence.py).  An event and an arc are   *)
(* objects: ref is the identity of the object, the other fields its value. *)
(***************************************************************************)
Arc(x_i, y_i, x_j, y_j, distance) ==
    [ ref |-> 0, x_i |-> x_i, y_i |-> y_i, x_j |-> x_j, y_j |-> y_j, distance |-> distance ]

\* An event that has no arc (arc = None).
NoArc == [ ref |-> 0, x_i |-> 0, y_i |-> 0, x_j |-> 0, y_j |-> 0, distance |-> -1 ]

Event(event_type, detail, time, arc) ==
    [ ref |-> 0, event_type |-> event_type, detail |-> detail, time |-> time, arc |-> arc ]

pick_event(f, time) == Event("pickup", << "pickup", f.id, f.part_type >>, time, NoArc)

place_event(q, time) == Event("place", << "place", q.id, q.part_type >>, time, NoArc)

changeover_event(job_finish, job_start, time) ==
    Event("changeover", << "changover", job_finish, job_start >>, time, NoArc)

travel_event(node_start, node_finish, time, arc) ==
    Event("travel", << "travel", node_start.id, node_finish.id >>, time, arc)

\* Fresh objects for a list of event values: event k and its arc get the
\* references base + 2k - 2 and base + 2k - 1.
New(events, base) ==
    [ k \in 1..Len(events) |->
        [ events[k] EXCEPT
            !.ref = base + 2 * k - 2,
            !.arc = IF events[k].arc = NoArc THEN NoArc
                    ELSE [ events[k].arc EXCEPT !.ref = base + 2 * k - 1 ] ] ]

\* The value of an event, whichever object holds it.
Value(e) ==
    [ event_type |-> e.event_type, detail |-> e.detail, time |-> e.time,
      arc |-> [ e.arc EXCEPT !.ref = 0 ] ]

Values(events) == [ k \in 1..Len(events) |-> Value(events[k]) ]

\* The objects (events and arcs) a list of events holds.
Refs(events) ==
    { events[k].ref : k \in 1..Len(events) }
    \cup { events[k].arc.ref : k \in { m \in 1..Len(events) : events[m].arc # NoArc } }

\* A copy that hands back the same objects.
deepcopy_alias(events, base) == events

\* copy.deepcopy of a list of events: equal values in new objects.
deepcopy(events, base) == New(events, base)

\* distance / speed, a time in seconds, kept in whole milliseconds.
TravelTime(distance, speed) == (distance * 1000) \div speed

(***************************************************************************)
(* PlacementModel: the data of one cluster's MIP and its results           *)
(* (model/placement_model.py).                                             *)
(***************************************************************************)
\* Trip distances that charge nothing for the return to the feeder.
trip_distances_free_return(job, f, placements, i, j) ==
    IF i = 0 THEN feeder_placement_distances(job, f, placements[j])
    ELSE IF j = 0 THEN 0
    ELSE placement_placement_distances(job, placements[i], placements[j])

\* _preprocessing: trip_distances[i, j] for the cluster `placements` (node k
\* is placements[k]) from the two distance maps the engine passes.
trip_distances(job, f, placements, i, j) ==
    IF i = 0 THEN feeder_placement_distances(job, f, placements[j])
    ELSE IF j = 0 THEN feeder_placement_distances(job, f, placements[i])
    ELSE placement_placement_distances(job, placements[i], placements[j])

\* _set_objective: the total distance of the trips taken.
obj(job, f, placements, x) ==
    LET xs == CHOOSE s \in [ 1..Cardinality(x) -> x ] : Range(s) = x
    IN  SumSeq([ k \in 1..Len(xs) |-> trip_distances(job, f, placements, xs[k][1], xs[k][2]) ])

\* The assignment that walks feeder -> placements in the order `order` -> feeder.
Walk(order) ==
    LET N == Len(order)
        node(t) == IF t = 0 \/ t = N + 1 THEN 0 ELSE order[t]
    IN  { << node(t), node(t + 1), t >> : t \in 0..N }

Orders(N) == { s \in [ 1..N -> 1..N ] : Range(s) = 1..N }

\* The assignments a solver may hold as its incumbent: the feasible ones.  Every
\* assignment that satisfies Constraints is a Walk (ClosedWalkOnly).
Feasible(N) == { x \in { Walk(order) : order \in Orders(N) } : Constraints(x, N) }

\* mip_rel_gap = 0.001: an assignment the solver may report as optimal.
WithinGap(job, f, placements, x) ==
    \A y \in Feasible(Len(placements)) :
        1000 * (obj(job, f, placements, x) - obj(job, f, placements, y))
            <= obj(job, f, placements, x)

TerminationCondition == { "optimal", "infeasible", "maxTimeLimit", "feasible", "other" }

\* _get_results: one row per variable that is not 0, in the order of p_results
\* (for i, j in trip_idx, then for t in arc_idx).
_get_results(job, f, placements, x) ==
    LET N == Len(placements)
        node(i) == IF i = 0 THEN f ELSE placements[i]
        keys == Flatten([ k \in 1..Len(trips(N)) |->
                    [ t1 \in 1..(N + 1) |-> << trips(N)[k][1], trips(N)[k][2], t1 - 1 >> ] ])
        taken == SelectSeq(keys, LAMBDA key : key \in x)
    IN  [ k \in 1..Len(taken) |->
            LET i == taken[k][1]
                j == taken[k][2]
                arc_distance == trip_distances(job, f, placements, i, j)
            IN  [ id_i |-> node(i).id, id_j |-> node(j).id,
                  x_i |-> node(i).x, y_i |-> node(i).y,
                  x_j |-> node(j).x, y_j |-> node(j).y,
                  arc_distance |-> arc_distance,
                  arc_time |-> TravelTime(arc_distance, job.machine.travel_speed)
                               + job.machine.vision_align_time + job.machine.place_time ] ]

(***************************************************************************)
(* PNPEngine (model/engine.py).                                            *)
(***************************************************************************)
get_unique_job_id(job_id, iteration) == << job_id, iteration >>

\* dict[key] = value on an insertion-ordered dict.
DictSet(dict, key, value) ==
    IF \E k \in 1..Len(dict) : dict[k].key = key
    THEN [ k \in 1..Len(dict) |-> IF dict[k].key = key THEN [ key |-> key, events |-> value ] ELSE dict[k] ]
    ELSE Append(dict, [ key |-> key, events |-> value ])

\* _get_placement_events: the events of one cluster's rows.
_get_placement_events(job, placement_results) ==
    Flatten([ idx \in 1..Len(placement_results) |->
        LET row == placement_results[idx]
            arc == Arc(row.x_i, row.y_i, row.x_j, row.y_j, row.arc_distance)
            node_start_is_feeder == feeders_by_id(job, row.id_i) # NoNode
            node_start == IF node_start_is_feeder THEN feeders_by_id(job, row.id_i)
                          ELSE placements_by_id(job, row.id_i)
            node_finish_is_feeder == feeders_by_id(job, row.id_j) # NoNode
            node_finish == IF node_finish_is_feeder THEN feeders_by_id(job, row.id_j)
                           ELSE placements_by_id(job, row.id_j)
        IN  << travel_event(node_start, node_finish, row.arc_time, arc) >>
            \o (IF ~node_finish_is_feeder
                THEN << place_event(node_finish, job.machine.place_time) >>
                ELSE << >>) ])

Inputs == << machine_inputs, tools_df, feeders_df, jobs_df, placements_df, jobs >>

SolverIdle == UNCHANGED << p, mip_t, termination_condition, cluster_result >>

CurrentJob == jobs[job_idx].job

\* run, the head of the loop over Setup.jobs with a job left (lines 33-41), and
\* the start of _run_job for it (lines 113-116).
run_job_begin ==
    /\ pc = "run"
    /\ job_idx <= Len(jobs)
    /\ LET job == CurrentJob
           job_previous_id == get_unique_job_id(job_previous, job_iteration)
           job_id == get_unique_job_id(job.job_id, 1)
       IN  /\ IF job_previous # None
              THEN /\ job_iteration' = 1
                   /\ sequence_for_job' =
                        New(<< changeover_event(job_previous_id, job_id,
                                                job.machine.pcb_changeover_time) >>, next_ref)
                   /\ next_ref' = next_ref + 2
              ELSE /\ job_iteration' = job_iteration
                   /\ sequence_for_job' = << >>
                   /\ next_ref' = next_ref
           /\ sequence_for_trip' = << >>
           /\ clusters_by_part_type' = cluster_placements(job)
           /\ feeder_previous' = feeder_last
           /\ feeder_idx' = 1
    /\ pc' = "feeder"
    /\ UNCHANGED << error, sequence_by_job, job_idx, job_previous, feeder_last,
                    cluster_idx, cluster_events, feeder, cluster >>
    /\ UNCHANGED Inputs
    /\ UNCHANGED sequence_df
    /\ SolverIdle

\* _run_job, the head of the loop over job.feeders with a feeder left
\* (lines 118-125).
feeder_begin ==
    /\ pc = "feeder"
    /\ feeder_idx <= Len(CurrentJob.feeders)
    /\ LET job == CurrentJob
           f == job.feeders[feeder_idx]
       IN  /\ feeder' = f
           /\ IF feeder_previous # NoNode /\ feeder_previous.id # f.id
              THEN LET feeder_feeder_distance == feeder_feeder_distances(job, feeder_previous, f)
                       arc == Arc(feeder_previous.x, feeder_previous.y, f.x, f.y, feeder_feeder_distance)
                   IN  /\ sequence_for_trip' = sequence_for_trip \o
                            New(<< travel_event(feeder_previous, f,
                                     TravelTime(feeder_feeder_distance, job.machine.travel_speed),
                                     arc) >>, next_ref)
                       /\ next_ref' = next_ref + 2
              ELSE /\ sequence_for_trip' = sequence_for_trip
                   /\ next_ref' = next_ref
    /\ cluster_idx' = 1
    /\ pc' = "cluster"
    /\ UNCHANGED << error, sequence_by_job, job_idx, job_previous, job_iteration,
                    feeder_last, sequence_for_job, feeder_previous, feeder_idx,
                    clusters_by_part_type, cluster_events, cluster >>
    /\ UNCHANGED Inputs
    /\ UNCHANGED sequence_df
    /\ SolverIdle

Clusters == clusters_by_part_type[feeder.part_type]

\* What the solver leaves behind: a termination condition and, with an
\* incumbent, the values of the variables.
SolverOutcomes(job, f, placements) ==
    LET N == Len(placements)
    IN  { [ termination_condition |-> "optimal", p |-> x ] :
            x \in { y \in Feasible(N) : WithinGap(job, f, placements, y) } }
        \cup { [ termination_condition |-> tc, p |-> x ] :
                tc \in { "feasible", "maxTimeLimit" }, x \in Feasible(N) }
        \cup { [ termination_condition |-> "other", p |-> x ] : x \in Feasible(N) }
        \cup { [ termination_condition |-> tc, p |-> NoValues ] :
                tc \in { "maxTimeLimit", "infeasible", "other" } }

RuntimeError(tc) == [ type |-> "RuntimeError", msg |-> << tc >> ]
NoValueError == [ type |-> "ValueError", msg |-> << "No value for uninitialized NumericValue object" >> ]

\* A _run_solver that lets every termination condition through.
_run_solver_never_raises(tc) == FALSE

\* _run_solver: TRUE when it raises (the branch of an unknown condition).
_run_solver_raises(tc) ==
    tc \notin { "optimal", "infeasible", "maxTimeLimit", "feasible" }

\* _run_job, one turn of the loop over the feeder's clusters (lines 127-134):
\* the pickup, PlacementModel(...).run() and the events of its rows.
cluster_run ==
    /\ pc = "cluster"
    /\ cluster_idx <= Len(Clusters)
    /\ LET job == CurrentJob
           placements == Clusters[cluster_idx]
           pick == << pick_event(feeder, job.machine.pick_time) >>
       IN  /\ cluster' = placements
           /\ \E outcome \in SolverOutcomes(job, feeder, placements) :
                /\ termination_condition' = outcome.termination_condition
                /\ p' = outcome.p
                /\ IF _run_solver_raises(outcome.termination_condition)
                   THEN /\ error' = RuntimeError(outcome.termination_condition)
                        /\ pc' = "error"
                        /\ cluster_result' = NoResult
                        /\ cluster_events' = New(pick, next_ref)
                   ELSE IF outcome.p = NoValues
                   THEN \* value() of a variable the solver never set
                        /\ error' = NoValueError
                        /\ pc' = "error"
                        /\ cluster_result' = NoResult
                        /\ cluster_events' = New(pick, next_ref)
                   ELSE /\ error' = error
                        /\ pc' = "cluster"
                        /\ cluster_result' = _get_results(job, feeder, placements, outcome.p)
                        /\ cluster_events' =
                             New(pick \o _get_placement_events(job, cluster_result'), next_ref)
           /\ sequence_for_trip' = sequence_for_trip \o cluster_events'
           /\ next_ref' = next_ref + 2 * Len(cluster_events')
    /\ cluster_idx' = IF pc' = "error" THEN cluster_idx ELSE cluster_idx + 1
    /\ mip_t' = mip_t
    /\ UNCHANGED << sequence_by_job, job_idx, job_previous, job_iteration, feeder_last,
                    sequence_for_job, feeder_previous, feeder_idx, clusters_by_part_type,
                    feeder >>
    /\ UNCHANGED Inputs
    /\ UNCHANGED sequence_df

\* _run_job, the end of a feeder's clusters (line 136).
feeder_end ==
    /\ pc = "cluster"
    /\ cluster_idx > Len(Clusters)
    /\ feeder_previous' = feeder
    /\ feeder_idx' = feeder_idx + 1
    /\ pc' = "feeder"
    /\ UNCHANGED << error, sequence_by_job, job_idx, job_previous, job_iteration,
                    feeder_last, sequence_for_job, sequence_for_trip,
                    clusters_by_part_type, cluster_idx, cluster_events, feeder, cluster,
                    next_ref >>
    /\ UNCHANGED Inputs
    /\ UNCHANGED sequence_df
    /\ SolverIdle

\* A loop over the repeats that never runs.
Repeats_none(dict, job, trip, iteration, quantity, base) ==
    [ dict |-> dict, next_ref |-> base ]

\* The repeats of a job: iteration k of 2..quantity is a changeover and a deep
\* copy of the trip (lines 47-52).  Returns the dict and the next reference.
RECURSIVE Repeats(_, _, _, _, _, _)
Repeats(dict, job, trip, iteration, quantity, base) ==
    IF iteration >= quantity THEN [ dict |-> dict, next_ref |-> base ]
    ELSE LET next == iteration + 1
             head == New(<< changeover_event(get_unique_job_id(job.job_id, next - 1),
                                             get_unique_job_id(job.job_id, next),
                                             job.machine.pcb_changeover_time) >>, base)
             sequence_for_job_next == head \o deepcopy(trip, base + 2)
         IN  Repeats(DictSet(dict, get_unique_job_id(job.job_id, next), sequence_for_job_next),
                     job, trip, next, quantity, base + 2 + 2 * Len(trip))

\* _run_job returns (line 138) and run records the job and its repeats
\* (lines 43-54).
job_end ==
    /\ pc = "feeder"
    /\ feeder_idx > Len(CurrentJob.feeders)
    /\ LET job == CurrentJob
           quantity == jobs[job_idx].quantity
           first == sequence_for_job \o sequence_for_trip
           recorded == DictSet(sequence_by_job, get_unique_job_id(job.job_id, job_iteration), first)
           repeated == Repeats(recorded, job, sequence_for_trip, job_iteration, quantity, next_ref)
       IN  /\ feeder_last' = feeder
           /\ sequence_for_job' = first
           /\ sequence_by_job' = repeated.dict
           /\ next_ref' = repeated.next_ref
           /\ job_iteration' = IF job_iteration < quantity THEN quantity ELSE job_iteration
           /\ job_previous' = job.job_id
    /\ job_idx' = job_idx + 1
    /\ pc' = "run"
    /\ UNCHANGED << error, sequence_for_trip, feeder_previous, feeder_idx,
                    clusters_by_part_type, cluster_idx, cluster_events, feeder, cluster >>
    /\ UNCHANGED Inputs
    /\ UNCHANGED sequence_df
    /\ SolverIdle

\* np.nan, the coordinate of a row that has no event with an arc before it.
nan == -1

\* The loop of get_sequence_df over the events (lines 84-101): the rows from
\* event k on, x2_prev and y2_prev being the destination of the row before.
RECURSIVE SequenceRows(_, _, _, _, _)
SequenceRows(job_col, combined_sequence, k, x2_prev, y2_prev) ==
    IF k > Len(combined_sequence) THEN << >>
    ELSE LET event == combined_sequence[k]
             has_arc == event.arc # NoArc
             x1 == IF has_arc THEN event.arc.x_i ELSE x2_prev
             y1 == IF has_arc THEN event.arc.y_i ELSE y2_prev
             x2 == IF has_arc THEN event.arc.x_j ELSE x2_prev
             y2 == IF has_arc THEN event.arc.y_j ELSE y2_prev
             row == [ job_id |-> job_col[k], event_type |-> event.event_type,
                      detail |-> event.detail, x1 |-> x1, y1 |-> y1, x2 |-> x2, y2 |-> y2,
                      distance |-> IF has_arc THEN event.arc.distance ELSE 0,
                      time |-> event.time ]
         IN  << row >> \o SequenceRows(job_col, combined_sequence, k + 1, x2, y2)

\* sequence_df.loc[1, ...] of a table without a second row.
KeyError == [ type |-> "KeyError", msg |-> << "1" >> ]

get_sequence_df_raises(dict) ==
    SumSeq([ k \in 1..Len(dict) |-> Len(dict[k].events) ]) < 2

\* get_sequence_df (when the table has a second row): one row per event of
\* the recorded instances in order, then the first row's coordinates set to
\* the second row's x1, y1 (lines 103-107).
get_sequence_df(dict) ==
    LET job_col == Flatten([ k \in 1..Len(dict) |->
                      [ m \in 1..Len(dict[k].events) |-> dict[k].key ] ])
        combined_sequence == Flatten([ k \in 1..Len(dict) |-> dict[k].events ])
        rows == SequenceRows(job_col, combined_sequence, 1, nan, nan)
    IN  [ rows EXCEPT ![1] = [ rows[1] EXCEPT !.x1 = rows[2].x1, !.y1 = rows[2].y1,
                                              !.x2 = rows[2].x1, !.y2 = rows[2].y1 ] ]

\* A run that swallows the error that ended its loop and returns the table of
\* what it has recorded.
run_end_despite_error ==
    /\ \/ pc = "run" /\ job_idx > Len(jobs)
       \/ pc = "error" /\ jobs # << >>
    /\ IF get_sequence_df_raises(sequence_by_job)
       THEN /\ error' = KeyError
            /\ pc' = "error"
            /\ sequence_df' = sequence_df
       ELSE /\ error' = error
            /\ pc' = "done"
            /\ sequence_df' = get_sequence_df(sequence_by_job)
    /\ UNCHANGED << sequence_by_job, job_idx, job_previous, job_iteration,
                    feeder_last, sequence_for_job, sequence_for_trip, feeder_previous,
                    feeder_idx, clusters_by_part_type, cluster_idx, cluster_events,
                    feeder, cluster, next_ref >>
    /\ UNCHANGED Inputs
    /\ SolverIdle

\* run, after the last job (lines 56-62): the table of get_sequence_df.
run_end ==
    /\ pc = "run"
    /\ job_idx > Len(jobs)
    /\ IF get_sequence_df_raises(sequence_by_job)
       THEN /\ error' = KeyError
            /\ pc' = "error"
            /\ sequence_df' = sequence_df
       ELSE /\ error' = error
            /\ pc' = "done"
            /\ sequence_df' = get_sequence_df(sequence_by_job)
    /\ UNCHANGED << sequence_by_job, job_idx, job_previous, job_iteration,
                    feeder_last, sequence_for_job, sequence_for_trip, feeder_previous,
                    feeder_idx, clusters_by_part_type, cluster_idx, cluster_events,
                    feeder, cluster, next_ref >>
    /\ UNCHANGED Inputs
    /\ SolverIdle

(***************************************************************************)
(* The routing search: every assignment of the binary variables that takes *)
(* at most one trip per step, built step by step.                          *)
(***************************************************************************)
fix_arc ==
    /\ pc = "search"
    /\ mip_t <= Len(cluster)
    /\ \E tr \in trip_idx(Len(cluster)) : p' = p \cup { << tr[1], tr[2], mip_t >> }
    /\ mip_t' = mip_t + 1
    /\ UNCHANGED << pc, error, sequence_by_job, job_idx, job_previous, job_iteration,
                    feeder_last, sequence_for_job, sequence_for_trip, feeder_previous,
                    feeder_idx, clusters_by_part_type, cluster_idx, cluster_events,
                    feeder, cluster, termination_condition, cluster_result, next_ref >>
    /\ UNCHANGED Inputs
    /\ UNCHANGED sequence_df

skip_arc ==
    /\ pc = "search"
    /\ mip_t <= Len(cluster)
    /\ mip_t' = mip_t + 1
    /\ UNCHANGED << pc, error, sequence_by_job, job_idx, job_previous, job_iteration,
                    feeder_last, sequence_for_job, sequence_for_trip, feeder_previous,
                    feeder_idx, clusters_by_part_type, cluster_idx, cluster_events,
                    feeder, cluster, p, termination_condition, cluster_result, next_ref >>
    /\ UNCHANGED Inputs
    /\ UNCHANGED sequence_df

(***************************************************************************)
(* The workbooks the model draws.                                          *)
(***************************************************************************)
JobNames == << "A", "B", "C", "D" >>
PlacementNames == << "P1", "P2", "P3", "P4", "P5" >>
FeederIds == { "F1", "F2" }
PartTypes == { "R", "C" }
PickupYs == { 0, 8 }
PosA == << 3, 4 >>
PosB == << 6, 8 >>
PosC == << 9, 4 >>
Positions == { PosA, PosB }

FeederX(id) == IF id = "F1" THEN 0 ELSE 6

MachineInputs(head_capacity) ==
    [ head_count |-> 1, head_capacity |-> head_capacity, travel_speed_mm_s |-> 100,
      pick_time_s |-> 1000, place_time_s |-> 500, vision_align_s |-> 200,
      pcb_changeover_s |-> 5000 ]

FeederRow(id, part_type, y) ==
    [ id |-> id, part_type |-> part_type, pickup_x_mm |-> FeederX(id), pickup_y_mm |-> y ]

PlacementRow(job_id, id, part_type, pos) ==
    [ job_id |-> job_id, id |-> id, part_type |-> part_type, x_mm |-> pos[1], y_mm |-> pos[2] ]

JobRow(id, quantity, due) == [ id |-> id, quantity |-> quantity, due_time_s |-> due ]

ToolSheets ==
    { << [ part_type |-> "R" ], [ part_type |-> "C" ] >>,
      << [ part_type |-> "R" ], [ part_type |-> "R" ] >> }

\* A jobs sheet of the given ids with distinct due times, listed by ascending
\* or by descending due time.
JobsSheet(ids, quantities, descending) ==
    [ k \in 1..Len(ids) |->
        JobRow(ids[k], quantities[k], IF descending THEN Len(ids) + 1 - k ELSE k) ]

\* The feeders sheets of the runs that pass validation: one or two feeders on
\* the line y = 0, listed in either order.
EngineFeederSheets ==
    { << FeederRow("F1", "R", 0) >>,
      << FeederRow("F1", "R", 0), FeederRow("F2", "C", 0) >>,
      << FeederRow("F2", "C", 0), FeederRow("F1", "R", 0) >>,
      << FeederRow("F2", "R", 0), FeederRow("F1", "C", 0) >> }

\* The ids of the rows of a placements sheet: ascending, descending, or with
\* a placement that bears the id of a feeder.
PlacementIdOrders == { "ascending", "descending", "feeder" }
PlacementId(order, k, len) ==
    IF order = "ascending" THEN PlacementNames[k]
    ELSE IF order = "descending" THEN PlacementNames[len + 1 - k]
    ELSE IF k = 1 THEN "F1" ELSE PlacementNames[k - 1]

EngineIdleInit ==
    /\ jobs = << >>
    /\ error = NoError
    /\ sequence_by_job = << >>
    /\ job_idx = 1
    /\ job_previous = None
    /\ job_iteration = 1
    /\ feeder_last = NoNode
    /\ sequence_for_job = << >>
    /\ sequence_for_trip = << >>
    /\ feeder_previous = NoNode
    /\ feeder_idx = 1
    /\ clusters_by_part_type = << >>
    /\ cluster_idx = 1
    /\ cluster_events = << >>
    /\ feeder = NoNode
    /\ cluster = << >>
    /\ p = NoValues
    /\ mip_t = 0
    /\ termination_condition = None
    /\ cluster_result = NoResult
    /\ next_ref = 1
    /\ sequence_df = NoTable

\* Workbooks that exercise the validation: every feeders sheet, jobs sheets
\* with and without a repeated id, both tools sheets, and placements sheets
\* with and without a repeated (job_id, id).
InitValidation ==
    /\ pc = "load"
    /\ machine_inputs = MachineInputs(1)
    /\ tools_df \in ToolSheets
    /\ feeders_df \in SeqsUpTo({ FeederRow(id, part_type, y) :
                                   id \in FeederIds, part_type \in PartTypes, y \in PickupYs },
                               MaxFeeders)
    /\ \E ids \in SeqsUpTo({ JobNames[1], JobNames[2] }, MaxJobs) \ { << >> } :
          jobs_df = JobsSheet(ids, [ k \in 1..Len(ids) |-> 1 ], TRUE)
    /\ placements_df \in SeqsUpTo({ PlacementRow("A", "P1", "R", PosA),
                                    PlacementRow("B", "P1", "R", PosB) }, 2)
    /\ EngineIdleInit

\* One job of quantity 1 with up to MaxPlacements placements of any part type,
\* position and id order.
InitClusters ==
    /\ pc = "load"
    /\ machine_inputs \in { MachineInputs(c) : c \in 1..MaxHeadCapacity }
    /\ tools_df = << [ part_type |-> "R" ], [ part_type |-> "C" ] >>
    /\ feeders_df \in EngineFeederSheets
    /\ jobs_df = JobsSheet(<< "A" >>, << 1 >>, FALSE)
    /\ \E rows \in SeqsUpTo(PartTypes \X Positions, MaxPlacements), order \in PlacementIdOrders :
          placements_df = [ k \in 1..Len(rows) |->
                              PlacementRow("A", PlacementId(order, k, Len(rows)), rows[k][1], rows[k][2]) ]
    /\ EngineIdleInit

\* One or more jobs, each of any quantity, over a few placements sheets.
InitJobs ==
    /\ pc = "load"
    /\ machine_inputs \in { MachineInputs(c) : c \in 1..MaxHeadCapacity }
    /\ tools_df = << [ part_type |-> "R" ], [ part_type |-> "C" ] >>
    /\ feeders_df \in EngineFeederSheets
    /\ \E nj \in 1..MaxJobs, descending \in BOOLEAN, reversed \in BOOLEAN :
         \E quantities \in [ 1..nj -> 1..MaxQuantity ] :
            jobs_df = JobsSheet([ k \in 1..nj |-> JobNames[IF reversed THEN nj + 1 - k ELSE k] ],
                                quantities, descending)
    /\ placements_df \in
         { << PlacementRow("A", "P1", "R", PosA), PlacementRow("B", "P1", "R", PosB) >>,
           << PlacementRow("A", "P1", "R", PosA), PlacementRow("A", "P2", "C", PosB),
              PlacementRow("B", "P3", "C", PosA) >>,
           << PlacementRow("A", "P1", "C", PosA), PlacementRow("B", "P2", "R", PosA),
              PlacementRow("B", "P3", "R", PosB) >>,
           << PlacementRow("B", "P1", "R", PosA) >>,
           << PlacementRow("A", "P2", "C", PosA), PlacementRow("A", "P1", "C", PosC),
              PlacementRow("B", "P3", "R", PosA) >>,
           << PlacementRow("A", "P1", "R", PosA), PlacementRow("A", "P2", "C", PosB),
              PlacementRow("B", "P3", "C", PosA), PlacementRow("B", "P4", "R", PosB) >> }
    /\ EngineIdleInit

Init == InitValidation \/ InitClusters \/ InitJobs

Next ==
    \/ load_data
    \/ run_job_begin
    \/ feeder_begin
    \/ cluster_run
    \/ feeder_end
    \/ job_end
    \/ run_end

Spec == Init /\ [][Next]_vars

\* The routing MIP of one cluster of 1..MaxN placements, before any variable
\* is fixed: the feeder F1 with placements on one line through it (S1), or
\* the feeder F2 with placements around it, where the orders differ in length.
InitMIP ==
    /\ pc = "search"
    /\ machine_inputs = MachineInputs(MaxN)
    /\ tools_df = << >>
    /\ jobs_df = JobsSheet(<< "A" >>, << 1 >>, FALSE)
    /\ \E N \in 1..MaxN :
         \/ /\ feeders_df = << FeederRow("F1", "R", 0) >>
            /\ placements_df = [ k \in 1..N |->
                                  PlacementRow("A", PlacementNames[k], "R",
                                               IF k % 2 = 1 THEN PosA ELSE PosB) ]
         \/ /\ feeders_df = << FeederRow("F2", "R", 0) >>
            /\ placements_df = [ k \in 1..N |->
                                  PlacementRow("A", PlacementNames[k], "R",
                                               << PosA, PosB, PosC >>[((k - 1) % 3) + 1]) ]
    /\ jobs = LoadedJobs(jobs_df, machine_inputs, feeders_df, placements_df)
    /\ error = NoError
    /\ sequence_by_job = << >>
    /\ job_idx = 1
    /\ job_previous = None
    /\ job_iteration = 1
    /\ feeder_last = NoNode
    /\ sequence_for_job = << >>
    /\ sequence_for_trip = << >>
    /\ feeder_previous = NoNode
    /\ feeder_idx = 1
    /\ clusters_by_part_type = << >>
    /\ cluster_idx = 1
    /\ cluster_events = << >>
    /\ feeder = jobs[1].job.feeders[1]
    /\ cluster = jobs[1].job.placements
    /\ p = {}
    /\ mip_t = 0
    /\ termination_condition = None
    /\ cluster_result = NoResult
    /\ next_ref = 1
    /\ sequence_df = NoTable

NextMIP == fix_arc \/ skip_arc

SpecMIP == InitMIP /\ [][NextMIP]_vars

(***************************************************************************)
(* Properties.                                                             *)
(***************************************************************************)
ArcsAt(x, t) == { a \in x : a[3] = t }
ArcAt(x, t) == CHOOSE a \in x : a[3] = t

\* The arcs of x, read in step order 0..N, are one closed walk from the feeder
\* through every placement exactly once.
IsClosedWalk(x, N) ==
    /\ \A a \in x : a[3] \in 0..N
    /\ \A t \in 0..N : Cardinality(ArcsAt(x, t)) = 1
    /\ ArcAt(x, 0)[1] = 0
    /\ ArcAt(x, N)[2] = 0
    /\ \A t \in 1..N : ArcAt(x, t)[1] = ArcAt(x, t - 1)[2]
    /\ \A v \in 1..N : Cardinality({ t \in 0..(N - 1) : ArcAt(x, t)[2] = v }) = 1
    /\ \A t \in 0..(N - 1) : ArcAt(x, t)[2] # 0

\* C1: every 0/1 assignment that satisfies all the constraints of
\* _set_constraints is, read in step order, one closed walk feeder ->
\* placements -> feeder that visits every placement exactly once: no subtour
\* and no return to the feeder before the last step.
ClosedWalkOnly == Constraints(p, Len(cluster)) => IsClosedWalk(p, Len(cluster))

\* C1's case: an assignment for a cluster of three placements that satisfies
\* every constraint.
ClosedWalkOnlyWitness == Len(cluster) = 3 /\ mip_t = 4 /\ Constraints(p, 3)

\* No placement of the job bears the id of one of its feeders.
NoIdClash(job) ==
    \A a \in 1..Len(job.feeders), b \in 1..Len(job.placements) :
        job.feeders[a].id # job.placements[b].id

NodeId(f, placements, i) == IF i = 0 THEN f.id ELSE placements[i].id

\* C2: the rows PlacementModel.run returns are the N + 1 arcs in step order:
\* row k is the arc taken at step k - 1 (stated of the jobs whose placement
\* ids differ from their feeder ids, where an id names one node).
RowsInStepOrder ==
    (pc = "cluster" /\ cluster_result # NoResult /\ NoIdClash(CurrentJob)) =>
        /\ Len(cluster_result) = Len(cluster) + 1
        /\ \A k \in 1..Len(cluster_result) :
             /\ ArcsAt(p, k - 1) # {}
             /\ cluster_result[k].id_i = NodeId(feeder, cluster, ArcAt(p, k - 1)[1])
             /\ cluster_result[k].id_j = NodeId(feeder, cluster, ArcAt(p, k - 1)[2])

Quantities == [ k \in 1..Len(jobs) |-> jobs[k].quantity ]

TypeCount(events, event_type) ==
    Cardinality({ k \in 1..Len(events) : events[k].event_type = event_type })

\* C3: after run, the recorded job instances are the jobs' instances in order;
\* the first has no CHANGEOVER, every other begins with the one CHANGEOVER it
\* has, from the instance before it to itself and of time pcb_changeover_time;
\* so there are (sum of quantities) - 1 of them.
ChangeoverAtEveryBoundary ==
    pc = "done" =>
        /\ Len(sequence_by_job) = SumSeq(Quantities)
        /\ \A k \in 1..Len(sequence_by_job) :
             LET events == sequence_by_job[k].events
                 at == { m \in 1..Len(events) : events[m].event_type = "changeover" }
             IN  /\ at = IF k = 1 THEN {} ELSE { 1 }
                 /\ k > 1 =>
                      /\ events[1].detail =
                           << "changover", sequence_by_job[k - 1].key, sequence_by_job[k].key >>
                      /\ events[1].time = machine_inputs.pcb_changeover_s
        /\ SumSeq([ k \in 1..Len(sequence_by_job) |->
                      TypeCount(sequence_by_job[k].events, "changeover") ])
             = SumSeq(Quantities) - 1

\* C3's case: a finished run of two jobs, one of them repeated.
ChangeoverAtEveryBoundaryWitness ==
    /\ pc = "done"
    /\ Len(jobs) = 2
    /\ jobs[1].quantity = 2
    /\ jobs[2].quantity = 1
    /\ Len(sequence_by_job) = 3

\* C4: the events of a cluster are one PICKUP, first; one PLACE for each
\* placement of the cluster and no other; and |cluster| + 1 TRAVELs.
ClusterEventCounts ==
    (pc = "cluster" /\ cluster_result # NoResult) =>
        /\ cluster_events[1].event_type = "pickup"
        /\ TypeCount(cluster_events, "pickup") = 1
        /\ TypeCount(cluster_events, "travel") = Len(cluster) + 1
        /\ TypeCount(cluster_events, "place") = Len(cluster)
        /\ \A k \in 1..Len(cluster) :
             Cardinality({ m \in 1..Len(cluster_events) :
                 cluster_events[m].detail = << "place", cluster[k].id, cluster[k].part_type >> }) = 1

\* C4 holds of the jobs whose placement ids differ from their feeder ids.
ClusterEventCountsNoClash ==
    (pc = "cluster" /\ NoIdClash(CurrentJob)) => ClusterEventCounts

\* The places of a placement in the clusters: << part type, cluster, position >>.
PlacesOf(clusters, q) ==
    { << key, c, m >> \in (DOMAIN clusters) \X (1..MaxPlacements + 1) \X (1..MaxPlacements + 1) :
        /\ c <= Len(clusters[key])
        /\ m <= Len(clusters[key][c])
        /\ clusters[key][c][m] = q }

\* C5: cluster_placements puts every placement whose part type has a feeder
\* in exactly one cluster, every cluster has 1..head_capacity placements, and
\* the placements of a cluster have the part type of its key.
ClustersPartition ==
    pc \in { "feeder", "cluster" } =>
        LET job == CurrentJob
            clusters == clusters_by_part_type
        IN  /\ \A k \in 1..Len(job.placements) :
                 (\E a \in 1..Len(job.feeders) : job.feeders[a].part_type = job.placements[k].part_type)
                     => Cardinality(PlacesOf(clusters, job.placements[k])) = 1
            /\ \A key \in DOMAIN clusters : \A c \in 1..Len(clusters[key]) :
                 /\ Len(clusters[key][c]) \in 1..job.machine.head_capacity
                 /\ \A m \in 1..Len(clusters[key][c]) : clusters[key][c][m].part_type = key

\* C5's case: three placements of one part type under a head capacity of 2,
\* cut into a cluster of two and a cluster of one.
ClustersPartitionWitness ==
    /\ pc = "cluster"
    /\ CurrentJob.machine.head_capacity = 2
    /\ "R" \in DOMAIN clusters_by_part_type
    /\ Len(clusters_by_part_type["R"]) = 2
    /\ Len(clusters_by_part_type["R"][1]) = 2
    /\ Len(clusters_by_part_type["R"][2]) = 1

EventsOf(key) ==
    LET k == CHOOSE m \in 1..Len(sequence_by_job) : sequence_by_job[m].key = key
    IN  sequence_by_job[k].events

\* An instance's events without the CHANGEOVER they may begin with.
Body(events) ==
    IF events # << >> /\ events[1].event_type = "changeover" THEN Tail(events) ELSE events

\* C6: every repeat of a job is one CHANGEOVER and then, value for value, the
\* body of iteration 1; and no two recorded instances share an object.
RepeatsAreDeepCopies ==
    pc = "done" =>
        /\ \A j \in 1..Len(jobs) : \A it \in 2..jobs[j].quantity :
             LET first == EventsOf(get_unique_job_id(jobs[j].job.job_id, 1))
                 again == EventsOf(get_unique_job_id(jobs[j].job.job_id, it))
             IN  /\ again # << >>
                 /\ again[1].event_type = "changeover"
                 /\ Values(Tail(again)) = Values(Body(first))
        /\ \A a, b \in 1..Len(sequence_by_job) :
             a # b => Refs(sequence_by_job[a].events) \cap Refs(sequence_by_job[b].events) = {}

\* C6's case: a finished run with a repeated job whose body has events.
RepeatsAreDeepCopiesWitness ==
    /\ pc = "done"
    /\ \E j \in 1..Len(jobs) :
         /\ jobs[j].quantity = 2
         /\ Len(EventsOf(get_unique_job_id(jobs[j].job.job_id, 2))) > 4

\* The feeders of a job that have no placement of their part type.
EmptyFeederIds(job) ==
    { job.feeders[a].id : a \in { b \in 1..Len(job.feeders) :
        \A k \in 1..Len(job.placements) : job.placements[k].part_type # job.feeders[b].part_type } }

\* C7: a feeder without placements of its part type is skipped: no PICKUP at
\* it, no TRAVEL to or from it, and it never is the feeder the head is taken to
\* be parked at (stated of the first job, where no feeder is carried over from
\* a job before, and of jobs whose placement ids differ from their feeder ids).
EmptyFeederSkipped ==
    (pc \in { "feeder", "cluster" } /\ job_idx = 1 /\ NoIdClash(CurrentJob)) =>
        LET empty == EmptyFeederIds(CurrentJob)
        IN  /\ feeder_previous.id \notin empty
            /\ \A k \in 1..Len(sequence_for_trip) :
                 LET e == sequence_for_trip[k]
                 IN  /\ e.event_type = "pickup" => e.detail[2] \notin empty
                     /\ e.event_type = "travel" => e.detail[2] \notin empty /\ e.detail[3] \notin empty

\* The job whose body _run_job returned last, and that body.
FinishedJob == jobs[job_idx - 1].job

FeederIdsOf(job) == { job.feeders[a].id : a \in 1..Len(job.feeders) }

IsFeederTravel(job, e) ==
    /\ e.event_type = "travel"
    /\ e.detail[2] \in FeederIdsOf(job)
    /\ e.detail[3] \in FeederIdsOf(job)

\* Within a finished job body: every feeder-to-feeder TRAVEL is right before a
\* PICKUP at the feeder it reaches and carries the feeder-feeder distance and
\* distance / travel_speed; between two successive PICKUPs there is one such
\* TRAVEL, from the one feeder to the other, when the feeders differ and none
\* when they are the same.
FeederTravelShape(job, body) ==
    /\ \A k \in 1..Len(body) : IsFeederTravel(job, body[k]) =>
         LET e == body[k]
             from == feeders_by_id(job, e.detail[2])
             to == feeders_by_id(job, e.detail[3])
         IN  /\ e.detail[2] # e.detail[3]
             /\ k < Len(body)
             /\ body[k + 1].event_type = "pickup"
             /\ body[k + 1].detail[2] = e.detail[3]
             /\ e.arc.distance = feeder_feeder_distances(job, from, to)
             /\ e.time = TravelTime(e.arc.distance, job.machine.travel_speed)
    /\ \A a, b \in 1..Len(body) :
         ( /\ a < b
           /\ body[a].event_type = "pickup"
           /\ body[b].event_type = "pickup"
           /\ \A m \in (a + 1)..(b - 1) : body[m].event_type # "pickup" ) =>
             LET between == { m \in (a + 1)..(b - 1) : IsFeederTravel(job, body[m]) }
             IN  IF body[a].detail[2] = body[b].detail[2]
                 THEN between = {}
                 ELSE /\ Cardinality(between) = 1
                      /\ \A m \in between :
                           /\ body[m].detail[2] = body[a].detail[2]
                           /\ body[m].detail[3] = body[b].detail[2]

\* C8: feeder-to-feeder TRAVELs appear exactly at the transitions between
\* distinct feeders of a job body (stated of jobs whose placement ids differ
\* from their feeder ids).
FeederTravelAtTransitionsOnly ==
    (pc \in { "run", "done" } /\ job_idx > 1 /\ NoIdClash(FinishedJob)) =>
        FeederTravelShape(FinishedJob, sequence_for_trip)

\* C8 holds of the job bodies in which every feeder has placements.
FeederTravelAtTransitionsWhenNoFeederEmpty ==
    (pc \in { "run", "done" } /\ job_idx > 1 /\ NoIdClash(FinishedJob)
        /\ EmptyFeederIds(FinishedJob) = {}) =>
        FeederTravelShape(FinishedJob, sequence_for_trip)

\* C9: run returns a route only when the solver ends optimal, feasible or at
\* its time limit, with an incumbent; at any other end the cluster's run ends
\* in an error (naming the condition when it is an unknown one) and the
\* cluster has no TRAVEL and no PLACE event.
SolverFailureIsFatal ==
    termination_condition # None =>
        LET accepted == /\ termination_condition \in { "optimal", "feasible", "maxTimeLimit" }
                        /\ p # NoValues
        IN  /\ cluster_result # NoResult => accepted
            /\ ~accepted =>
                 /\ pc = "error"
                 /\ error # NoError
                 /\ cluster_result = NoResult
                 /\ TypeCount(cluster_events, "travel") = 0
                 /\ TypeCount(cluster_events, "place") = 0
                 /\ sequence_by_job = << >> \/ job_idx > 1
            /\ termination_condition = "other" => error = RuntimeError("other")
            /\ accepted => pc # "error" /\ Len(cluster_result) = Len(cluster) + 1

\* C9's case: the solver stopped at its time limit without an incumbent.
SolverFailureIsFatalWitness ==
    /\ termination_condition = "maxTimeLimit"
    /\ p = NoValues
    /\ pc = "error"
    /\ Len(cluster) = 2

\* The messages of the five checks the sheets fail.
ViolatedChecks ==
    (IF Duplicated(jobs_df, << "id" >>) THEN { MsgJobIds } ELSE {})
    \cup (IF Duplicated(feeders_df, << "id" >>) THEN { MsgFeederIds } ELSE {})
    \cup (IF Duplicated(feeders_df, << "part_type" >>) THEN { MsgFeederParts } ELSE {})
    \cup (IF \E a, b \in 1..Len(feeders_df) : feeders_df[a].pickup_y_mm # feeders_df[b].pickup_y_mm
          THEN { MsgPickupY } ELSE {})
    \cup (IF Duplicated(placements_df, << "job_id", "id" >>) THEN { MsgPlacementIds } ELSE {})

ValidationMessages ==
    { MsgJobIds, MsgTools, MsgFeederIds, MsgFeederParts, MsgPickupY, MsgPlacementIds }

\* C10: when any of the five checks fails, load_data raises one error whose
\* message lists every failed check, before any Job is constructed and before
\* any event; when none fails, it raises no validation error.
ValidationListsEveryViolation ==
    pc \notin { "load", "search" } =>
        /\ ViolatedChecks # {} =>
             /\ pc = "error"
             /\ error.type = "ValueError"
             /\ ViolatedChecks \subseteq Range(error.msg)
             /\ jobs = << >>
             /\ sequence_by_job = << >> /\ sequence_for_trip = << >>
        /\ ViolatedChecks = {} => Range(error.msg) \cap ValidationMessages = {}

\* C10 holds of the workbooks that have a feeder and whose tools sheet names
\* no part type twice.
ValidationListsEveryViolationOfUsualSheets ==
    (feeders_df # << >> /\ ~Duplicated(tools_df, << "part_type" >>)) =>
        ValidationListsEveryViolation

\* Two coordinates that are numbers and equal (nan equals nothing).
SameCoordinate(a, b) == a # nan /\ b # nan /\ a = b

\* The events of the recorded instances in the order of the table's rows.
CombinedSequence == Flatten([ k \in 1..Len(sequence_by_job) |-> sequence_by_job[k].events ])

\* The table has one row per event; its first row is a PICKUP of the first job
\* whose coordinates are all the second row's x1, y1; a TRAVEL row has its
\* arc's coordinates and distance; any other row after the first has distance
\* 0 and starts and ends at the destination of the row before it.
TableShape(rows, events) ==
    /\ Len(rows) = Len(events)
    /\ rows[1].event_type = "pickup"
    /\ rows[1].job_id = get_unique_job_id(jobs[1].job.job_id, 1)
    /\ SameCoordinate(rows[1].x1, rows[2].x1) /\ SameCoordinate(rows[1].y1, rows[2].y1)
    /\ SameCoordinate(rows[1].x2, rows[2].x1) /\ SameCoordinate(rows[1].y2, rows[2].y1)
    /\ \A k \in 1..Len(rows) :
         IF rows[k].event_type = "travel"
         THEN /\ events[k].arc # NoArc
              /\ rows[k].x1 = events[k].arc.x_i /\ rows[k].y1 = events[k].arc.y_i
              /\ rows[k].x2 = events[k].arc.x_j /\ rows[k].y2 = events[k].arc.y_j
              /\ rows[k].distance = events[k].arc.distance
         ELSE k > 1 =>
              /\ rows[k].distance = 0
              /\ SameCoordinate(rows[k].x1, rows[k - 1].x2)
              /\ SameCoordinate(rows[k].y1, rows[k - 1].y2)
              /\ SameCoordinate(rows[k].x2, rows[k - 1].x2)
              /\ SameCoordinate(rows[k].y2, rows[k - 1].y2)

\* C11: in the table get_sequence_df returns, the first row is a PICKUP of the
\* first job backfilled with the second row's x1, y1; every TRAVEL row carries
\* its arc's coordinates and distance; every other row has distance 0 and
\* starts and ends at the previous row's destination.
ResultTableBackfilled ==
    pc = "done" => TableShape(sequence_df, CombinedSequence)

\* C11 holds of the runs in which every feeder of every job has placements.
ResultTableBackfilledWhenNoFeederEmpty ==
    (pc = "done" /\ \A k \in 1..Len(jobs) : EmptyFeederIds(jobs[k].job) = {}) =>
        TableShape(sequence_df, CombinedSequence)

\* The TRAVEL events of the cluster last processed all take the time
\* distance / travel_speed + overhead.
ClusterTravelTimes(overhead) ==
    \A k \in 1..Len(cluster_events) :
        cluster_events[k].event_type = "travel" =>
            cluster_events[k].time =
                TravelTime(cluster_events[k].arc.distance, CurrentJob.machine.travel_speed)
                    + overhead

\* C12: every TRAVEL event built for a solver-produced arc, the return to
\* the feeder included, has time distance / travel_speed with no vision-align
\* and no place overhead; the place overhead is the PLACE event's time.
TravelTimeIsDistanceOverSpeed ==
    (pc = "cluster" /\ cluster_result # NoResult) =>
        /\ ClusterTravelTimes(0)
        /\ \A k \in 1..Len(cluster_events) :
             cluster_events[k].event_type = "place" =>
                 cluster_events[k].time = CurrentJob.machine.place_time

\* What the events carry instead: the arc_time of _get_results, which adds
\* vision_align_time and place_time to every arc.
TravelTimeIncludesOverhead ==
    (pc = "cluster" /\ cluster_result # NoResult) =>
        ClusterTravelTimes(CurrentJob.machine.vision_align_time + CurrentJob.machine.place_time)

\* C13: a fatal error (of validation, geometry, the solver, or any other)
\* ends the whole run: once an error is raised the program is stopped in it
\* and run has handed no table to its caller, whatever job instances it had
\* recorded before; a table is returned only by a run without error.
FatalErrorAbortsRun ==
    /\ error # NoError => pc = "error" /\ sequence_df = NoTable
    /\ pc = "error" => error # NoError
    /\ sequence_df # NoTable => pc = "done" /\ error = NoError

\* C13's case: the solver fails in the second job, after the first job's
\* instance has been recorded with its events.
FatalErrorAbortsRunWitness ==
    /\ pc = "error"
    /\ error.type = "RuntimeError"
    /\ job_idx = 2
    /\ Len(sequence_by_job) >= 1
    /\ Len(sequence_by_job[1].events) >= 4
    /\ sequence_df = NoTable

\* The length of the closed tour feeder -> placements in the order `order` ->
\* feeder, measured on the coordinates.
TourLength(f, placements, order) ==
    LET N == Len(order)
        at(k) == IF k = 0 \/ k = N + 1 THEN Pos(f) ELSE Pos(placements[order[k]])
    IN  SumSeq([ k \in 1..(N + 1) |-> calculate_distance(at(k - 1), at(k)) ])

\* Brute force: the shortest of the tours over all orders of the placements.
ShortestTour(f, placements) ==
    LET lengths == { TourLength(f, placements, order) : order \in Orders(Len(placements)) }
    IN  CHOOSE m \in lengths : \A n \in lengths : m <= n

\* C14: for every order of the cluster's placements the walk feeder ->
\* placements in that order -> feeder satisfies every constraint (the model
\* is never infeasible) and costs the tour's length; no assignment that
\* satisfies the constraints costs less than the shortest tour brute force
\* finds, so the minimum of the objective is that length (20 for S1, whose
\* coordinates the model divides by 10).
MIPOptimumIsShortestTour ==
    LET N == Len(cluster)
        job == jobs[1].job
    IN  /\ mip_t = 0 =>    \* of the cluster, before the search
             /\ \A order \in Orders(N) :
                  /\ Constraints(Walk(order), N)
                  /\ obj(job, feeder, cluster, Walk(order)) = TourLength(feeder, cluster, order)
             /\ Feasible(N) # {}
             /\ \E x \in Feasible(N) : obj(job, feeder, cluster, x) = ShortestTour(feeder, cluster)
             /\ (N = 2 /\ feeder.id = "F1") => ShortestTour(feeder, cluster) = 5 + 5 + 10
        /\ Constraints(p, N) => obj(job, feeder, cluster, p) >= ShortestTour(feeder, cluster)

\* C14's case: the search has reached an assignment for three placements
\* around the feeder that satisfies the constraints and is not a shortest
\* tour, so that feasible assignments differ in cost.
MIPOptimumIsShortestTourWitness ==
    /\ Len(cluster) = 3
    /\ mip_t = 4
    /\ Constraints(p, 3)
    /\ obj(jobs[1].job, feeder, cluster, p) > ShortestTour(feeder, cluster)

\* C15: for each feeder, the clusters of its part type are its placements in
\* order of non-decreasing distance from it, cut into consecutive chunks of
\* head_capacity: every cluster but the last has exactly head_capacity
\* placements, and no placement of an earlier cluster is farther from the
\* feeder than a placement of a later cluster (or a later one of its own).
ClustersNearestFirst ==
    pc \in { "feeder", "cluster" } =>
        LET job == CurrentJob
        IN  \A a \in 1..Len(job.feeders) :
                LET f == job.feeders[a]
                    clusters == clusters_by_part_type[f.part_type]
                    flat == Flatten(clusters)
                IN  /\ \A c \in 1..(Len(clusters) - 1) :
                         Len(clusters[c]) = job.machine.head_capacity
                    /\ Len(clusters) > 0 =>
                         Len(clusters[Len(clusters)]) \in 1..job.machine.head_capacity
                    /\ clusters = Chunks(flat, job.machine.head_capacity)
                    /\ \A m, n \in 1..Len(flat) :
                         m < n => feeder_placement_distances(job, f, flat[m])
                                    <= feeder_placement_distances(job, f, flat[n])
                    /\ \A k \in 1..Len(job.placements) :
                         job.placements[k].part_type = f.part_type =>
                             \E m \in 1..Len(flat) : flat[m] = job.placements[k]

\* C15's case: a feeder with two clusters whose placements the sheet lists
\* with a farther one before a nearer one.
ClustersNearestFirstWitness ==
    /\ pc = "cluster"
    /\ Len(Clusters) = 2
    /\ Len(Clusters[1]) = 2
    /\ \E m, n \in 1..Len(CurrentJob.placements) :
         /\ m < n
         /\ CurrentJob.placements[m].part_type = feeder.part_type
         /\ CurrentJob.placements[n].part_type = feeder.part_type
         /\ feeder_placement_distances(CurrentJob, feeder, CurrentJob.placements[m])
              > feeder_placement_distances(CurrentJob, feeder, CurrentJob.placements[n])

\* The ids of the model's nodes in ascending (string) order.
IdsAscending == << "F1", "F2" >> \o PlacementNames

IdRank(id) == CHOOSE k \in 1..Len(IdsAscending) : IdsAscending[k] = id

\* The job with its placements listed by ascending id.
ListedById(job) ==
    [ job EXCEPT !.placements =
        SortBy(job.placements, [ k \in 1..Len(job.placements) |-> IdRank(job.placements[k].id) ]) ]

\* C16: placements of one part type at equal distance from their feeder are
\* clustered in ascending order of their ids, so the clusters are those of
\* the same placements listed in any other order (here: listed by id).
TieBreakByPlacementId ==
    pc \in { "feeder", "cluster" } =>
        LET job == CurrentJob
        IN  /\ \A a \in 1..Len(job.feeders) :
                 LET f == job.feeders[a]
                     flat == Flatten(clusters_by_part_type[f.part_type])
                 IN  \A m, n \in 1..Len(flat) :
                         ( /\ m < n
                           /\ feeder_placement_distances(job, f, flat[m])
                                = feeder_placement_distances(job, f, flat[n]) )
                             => IdRank(flat[m].id) < IdRank(flat[n].id)
            /\ clusters_by_part_type = cluster_placements(ListedById(job))

\* What the code does instead: placements at equal distance keep the order in
\* which the placements sheet lists them.
TieKeepsListedOrder ==
    pc \in { "feeder", "cluster" } =>
        LET job == CurrentJob
        IN  \A a \in 1..Len(job.feeders) :
                LET f == job.feeders[a]
                    flat == Flatten(clusters_by_part_type[f.part_type])
                    listed(q) == CHOOSE k \in 1..Len(job.placements) : job.placements[k] = q
                IN  \A m, n \in 1..Len(flat) :
                        ( /\ m < n
                          /\ feeder_placement_distances(job, f, flat[m])
                               = feeder_placement_distances(job, f, flat[n]) )
                            => listed(flat[m]) <= listed(flat[n])

\* The positions of the PICKUPs in a list of events.
PickupsAt(events) == { m \in 1..Len(events) : events[m].event_type = "pickup" }

\* The position of the first PICKUP (past the end when there is none).
FirstPickup(events) ==
    IF PickupsAt(events) = {} THEN Len(events) + 1
    ELSE CHOOSE m \in PickupsAt(events) : \A n \in PickupsAt(events) : m <= n

\* The feeder of the last PICKUP of a body that has one: the feeder the head
\* visited last.
LastVisited(events) ==
    events[CHOOSE m \in PickupsAt(events) : \A n \in PickupsAt(events) : n <= m].detail[2]

\* The first iteration of the job before the k-th, without its CHANGEOVER.
BodyBefore(k) == Body(EventsOf(get_unique_job_id(jobs[k - 1].job.job_id, 1)))

\* feeder_previous at the start of the job at job_idx, and the start of the
\* body of the job finished last, are as carried over from the job before.
CarriedAcrossJobs ==
    /\ (pc = "feeder" /\ feeder_idx = 1) =>
         IF job_idx = 1 THEN feeder_previous = NoNode
         ELSE PickupsAt(BodyBefore(job_idx)) # {} =>
                  feeder_previous.id = LastVisited(BodyBefore(job_idx))
    /\ (pc = "run" /\ job_idx > 1) =>
         LET k == job_idx - 1
             job == jobs[k].job
             body == sequence_for_trip
             before == { m \in 1..(FirstPickup(body) - 1) : IsFeederTravel(job, body[m]) }
         IN  IF k = 1 THEN before = {}
             ELSE /\ sequence_for_job # << >>
                  /\ sequence_for_job[1].event_type = "changeover"
                  /\ Tail(sequence_for_job) = body
                  /\ (PickupsAt(BodyBefore(k)) # {} /\ PickupsAt(body) # {}) =>
                       IF job.feeders[1].id # LastVisited(BodyBefore(k))
                       THEN /\ before = { 1 }
                            /\ body[1].detail =
                                 << "travel", LastVisited(BodyBefore(k)), job.feeders[1].id >>
                            /\ body[1].arc.distance =
                                 feeder_feeder_distances(job,
                                     feeders_by_id(job, LastVisited(BodyBefore(k))), job.feeders[1])
                            /\ body[1].time =
                                 TravelTime(body[1].arc.distance, job.machine.travel_speed)
                       ELSE before = {}

\* C17: run carries feeder_previous across jobs: a job other than the first
\* begins with feeder_previous the last feeder visited in the job before, and
\* when its first feeder differs from it the job's events are the CHANGEOVER,
\* then the TRAVEL from that feeder to the first feeder, before the first
\* PICKUP; the first job has no feeder-to-feeder TRAVEL before its first
\* PICKUP (stated of jobs whose placement ids differ from their feeder ids).
FeederPreviousCarriedAcrossJobs ==
    (\A k \in 1..Len(jobs) : NoIdClash(jobs[k].job)) => CarriedAcrossJobs

\* C17 holds of the runs in which every feeder of every job has placements.
FeederPreviousCarriedWhenNoFeederEmpty ==
    (\A k \in 1..Len(jobs) : NoIdClash(jobs[k].job) /\ EmptyFeederIds(jobs[k].job) = {})
        => CarriedAcrossJobs

\* A run in which the carry-over shows: the second of two jobs, each with
\* placements for both feeders, has begun with the TRAVEL from the feeder the
\* first job ended at to its own first feeder.
FeederPreviousCarriedCase ==
    /\ pc = "run"
    /\ job_idx = 3
    /\ \A k \in 1..Len(jobs) : NoIdClash(jobs[k].job) /\ EmptyFeederIds(jobs[k].job) = {}
    /\ Len(jobs[2].job.feeders) = 2
    /\ sequence_for_job[1].event_type = "changeover"
    /\ sequence_for_job[2].detail = << "travel", "F2", "F1" >>
    /\ sequence_for_job[3].event_type = "pickup"

\* The position of the last TRAVEL before event k (0 when there is none).
TravelBefore(events, k) ==
    LET at == { m \in 1..(k - 1) : events[m].event_type = "travel" }
    IN  IF at = {} THEN 0 ELSE CHOOSE m \in at : \A n \in at : n <= m

\* Along a list of events the head moves without a jump: a TRAVEL starts at
\* the node (and the point) where the TRAVEL before it ended, a PICKUP is at
\* the feeder where the TRAVEL before it ended.
HeadPath(events) ==
    \A k \in 1..Len(events) :
        LET m == TravelBefore(events, k)
        IN  m > 0 =>
              /\ events[k].event_type = "travel" =>
                   /\ events[k].detail[2] = events[m].detail[3]
                   /\ events[k].arc.x_i = events[m].arc.x_j
                   /\ events[k].arc.y_i = events[m].arc.y_j
              /\ events[k].event_type = "pickup" =>
                   events[k].detail[2] = events[m].detail[3]

\* C18: in the events of all recorded job instances in order, repeats
\* included, the head never jumps: every TRAVEL starts where the TRAVEL before
\* it ended and every PICKUP is at the feeder where the TRAVEL before it ended
\* (stated of jobs whose placement ids differ from their feeder ids).
HeadNeverJumps ==
    (pc \in { "run", "done" } /\ \A k \in 1..Len(jobs) : NoIdClash(jobs[k].job)) =>
        HeadPath(CombinedSequence)

\* The head's path has no jump in the runs without a repeated job and with
\* one placement per cluster.
HeadNeverJumpsWithoutRepeats ==
    ( /\ pc \in { "run", "done" }
      /\ \A k \in 1..Len(jobs) : NoIdClash(jobs[k].job) /\ jobs[k].quantity = 1
      /\ machine_inputs.head_capacity = 1 ) =>
        HeadPath(CombinedSequence)

====
